---------------------------- MODULE Spec2Model ----------------------------
(***************************************************************************)
(* The OLTP -> warehouse ETL pipeline of etl.py / config.py.               *)
(*                                                                         *)
(* A DataFrame is a record [columns, rows]: columns is the ordered list of *)
(* column names, rows the sequence of rows.  A row is a function from the  *)
(* MODELLED columns (keys, foreign keys, one payload column) to values;    *)
(* the values of the other columns are abstracted away, their names are    *)
(* kept in columns.  A database table is the sequence of its rows in       *)
(* insertion order; its columns and constraints are those of its DDL.      *)
(***************************************************************************)
EXTENDS Integers, Sequences, FiniteSets

(***************************************************************************)
(* Bounds of the model.                                                    *)
(***************************************************************************)
MaxId == 1        \* dimension ids are 1..MaxId
MaxOrders == 2    \* order ids are 1..MaxOrders; at most MaxOrders order rows
MaxRuns == 3      \* pipeline runs per behaviour
MaxEdits == 1     \* changes of the source store between runs, per behaviour
MaxMissing == 1   \* dimension rows absent from the initial source store
MaxExtra == 1     \* source tables that carry a column the warehouse lacks
MaxKey == 2       \* keys of the candidate rows of a direct load_data call
MaxRows == 2      \* rows of the candidate dataset of a direct load_data call
MaxCalls == 3     \* direct calls of extract_data / load_data per behaviour

NULL == 0         \* SQL NULL / pandas NaN of a nullable integer column

Ids == 1..MaxId
DanglingId == MaxId + 1   \* an id that no dimension row carries

(***************************************************************************)
(* config.py                                                               *)
(***************************************************************************)
\* oltp_tables.keys(), in the order of the dict
oltp_keys ==
    <<"users", "payments", "shippers", "ratings", "vouchers", "orders",
      "products", "product_category", "order_items">>

oltp_tables ==
    [users |-> "tb_users", payments |-> "tb_payments",
     shippers |-> "tb_shippers", ratings |-> "tb_ratings",
     vouchers |-> "tb_vouchers", orders |-> "tb_orders",
     products |-> "tb_products", product_category |-> "tb_product_category",
     order_items |-> "tb_order_items"]

warehouse_tables ==
    [users |-> "dim_user", payments |-> "dim_payment",
     shippers |-> "dim_shipper", ratings |-> "dim_rating",
     vouchers |-> "dim_voucher", orders |-> "fact_orders",
     product_category |-> "dim_product_category", products |-> "dim_product",
     order_items |-> "fact_order_items"]

\* mutant: the fact tables moved to the front of the dict
warehouse_items_facts_first ==
    <<"orders", "order_items", "users", "payments", "shippers", "ratings",
      "vouchers", "product_category", "products">>

\* warehouse_tables.items(): the keys, in the order of the dict
warehouse_items ==
    <<"users", "payments", "shippers", "ratings", "vouchers", "orders",
      "product_category", "products", "order_items">>

dimension_columns ==
    [dim_user |-> <<"user_id", "user_first_name", "user_last_name",
                    "user_gender", "user_address", "user_birthday",
                    "user_join">>,
     dim_payment |-> <<"payment_id", "payment_name", "payment_status">>,
     dim_shipper |-> <<"shipper_id", "shipper_name">>,
     dim_rating |-> <<"rating_id", "rating_level", "rating_status">>,
     dim_voucher |-> <<"voucher_id", "voucher_name", "voucher_price",
                       "voucher_created", "user_id">>,
     fact_orders |-> <<"order_id", "order_date", "user_id", "payment_id",
                       "shipper_id", "order_price", "order_discount",
                       "voucher_id", "order_total", "rating_id">>,
     dim_product_category |-> <<"product_category_id",
                                "product_category_name">>,
     dim_product |-> <<"product_id", "product_category_id", "product_name",
                       "product_created", "product_price",
                       "product_discount">>,
     fact_order_items |-> <<"order_item_id", "order_id", "product_id",
                            "order_item_quantity", "product_discount",
                            "product_subdiscount", "product_price",
                            "product_subprice">>]

WarehouseNames == DOMAIN dimension_columns

\* ddl_statements: the columns of each CREATE TABLE, in order
ddl_columns == dimension_columns

\* ddl_statements: the PRIMARY KEY column of each table
ddl_primary_key ==
    [dim_user |-> "user_id", dim_payment |-> "payment_id",
     dim_shipper |-> "shipper_id", dim_rating |-> "rating_id",
     dim_voucher |-> "voucher_id", fact_orders |-> "order_id",
     dim_product_category |-> "product_category_id",
     dim_product |-> "product_id", fact_order_items |-> "order_item_id"]

\* ddl_statements: the columns declared without NOT NULL
ddl_nullable ==
    [dim_user |-> {"user_address"}, dim_payment |-> {}, dim_shipper |-> {},
     dim_rating |-> {}, dim_voucher |-> {"voucher_price"},
     fact_orders |-> {"order_discount", "voucher_id"},
     dim_product_category |-> {}, dim_product |-> {"product_discount"},
     fact_order_items |-> {"order_item_quantity", "product_discount",
                           "product_subdiscount"}]

\* ddl_statements: FOREIGN KEY (col) REFERENCES table(refcol)
ddl_foreign_keys ==
    [dim_user |-> {}, dim_payment |-> {}, dim_shipper |-> {},
     dim_rating |-> {}, dim_voucher |-> {},
     fact_orders |-> {<<"user_id", "dim_user", "user_id">>,
                      <<"payment_id", "dim_payment", "payment_id">>,
                      <<"shipper_id", "dim_shipper", "shipper_id">>,
                      <<"voucher_id", "dim_voucher", "voucher_id">>,
                      <<"rating_id", "dim_rating", "rating_id">>},
     dim_product_category |-> {},
     dim_product |-> {<<"product_category_id", "dim_product_category",
                        "product_category_id">>},
     fact_order_items |-> {<<"product_id", "dim_product", "product_id">>,
                           <<"order_id", "fact_orders", "order_id">>}]

(***************************************************************************)
(* Sequences and DataFrames                                                *)
(***************************************************************************)
Range(s) == {s[i] : i \in 1..Len(s)}

Contains(s, x) == \E i \in 1..Len(s) : s[i] = x

\* a finite set as a sequence, in a fixed order
RECURSIVE SetToSeq(_)
SetToSeq(S) ==
    IF S = {} THEN <<>>
    ELSE LET x == CHOOSE y \in S : TRUE IN <<x>> \o SetToSeq(S \ {x})

Frame(cols, rows) == [columns |-> cols, rows |-> rows]

\* an exception in place of a value
Raise(kind) == [error |-> kind]
IsError(v) == "error" \in DOMAIN v

\* df[column]: the values of one column, as a list
ColumnValues(rows, col) == [i \in 1..Len(rows) |-> rows[i][col]]

\* a row cut down to the listed columns (the modelled ones among them)
RestrictRow(row, cols) ==
    [c \in (DOMAIN row) \cap Range(cols) |-> row[c]]

\* df[columns]: KeyError when a listed column is not in the frame
Project(df, cols) ==
    IF \E i \in 1..Len(cols) : ~Contains(df.columns, cols[i])
    THEN Raise("KeyError")
    ELSE Frame(cols, [i \in 1..Len(df.rows) |-> RestrictRow(df.rows[i], cols)])

\* df.rename(columns={old: new})
Rename(df, old, new) ==
    LET nm(c) == IF c = old THEN new ELSE c
        row(r) == [n \in {nm(c) : c \in DOMAIN r} |->
                     r[CHOOSE c \in DOMAIN r : nm(c) = n]]
    IN Frame([i \in 1..Len(df.columns) |-> nm(df.columns[i])],
             [i \in 1..Len(df.rows) |-> row(df.rows[i])])

\* the modelled columns of a frame's rows
RowColumns(df) == IF df.rows = <<>> THEN {} ELSE DOMAIN df.rows[1]

\* left.merge(right, on=on, how=how): a column of both sides other than the
\* key is kept twice, as <name>_x and <name>_y
LName(c, on, rcols) == IF c # on /\ Contains(rcols, c) THEN c \o "_x" ELSE c
RName(c, lcols) == IF Contains(lcols, c) THEN c \o "_y" ELSE c

JoinRow(l, r, on, lcols, rcols) ==
    LET ln == {LName(c, on, rcols) : c \in DOMAIN l}
        rn == {RName(c, lcols) : c \in (DOMAIN r) \ {on}}
    IN [n \in ln \cup rn |->
          IF n \in ln
          THEN l[CHOOSE c \in DOMAIN l : LName(c, on, rcols) = n]
          ELSE r[CHOOSE c \in (DOMAIN r) \ {on} : RName(c, lcols) = n]]

\* a left row without a match, its right-hand columns NaN
LeftOnlyRow(l, on, lcols, right) ==
    JoinRow(l, [c \in RowColumns(right) |-> NULL], on, lcols, right.columns)

RECURSIVE MergeRows(_, _, _, _, _)
MergeRows(lrows, lcols, right, on, how) ==
    IF lrows = <<>> THEN <<>>
    ELSE LET l == Head(lrows)
             hit == SelectSeq(right.rows, LAMBDA r : r[on] = l[on])
             out == IF hit = <<>> /\ how = "left"
                    THEN <<LeftOnlyRow(l, on, lcols, right)>>
                    ELSE [i \in 1..Len(hit) |->
                            JoinRow(l, hit[i], on, lcols, right.columns)]
         IN out \o MergeRows(Tail(lrows), lcols, right, on, how)

Merge(left, right, on, how) ==
    IF IsError(left) THEN left
    ELSE IF ~Contains(left.columns, on) \/ ~Contains(right.columns, on)
    THEN Raise("KeyError")
    ELSE Frame(
           [i \in 1..Len(left.columns) |->
              LName(left.columns[i], on, right.columns)]
           \o LET rc == SelectSeq(right.columns, LAMBDA c : c # on)
              IN [i \in 1..Len(rc) |-> RName(rc[i], left.columns)],
           MergeRows(left.rows, left.columns, right, on, how))

(***************************************************************************)
(* State                                                                   *)
(***************************************************************************)
VARIABLES
    oltp,       \* the source store: physical table name -> DataFrame
    dwh,        \* the warehouse: table name -> rows, in insertion order
    created,    \* the warehouse tables that exist
    dm_sales,   \* the rows of the mart table dm_sales
    sale_seq,   \* the last value of the SERIAL sequence behind sale_id
    pc,         \* position of etl_process
    idx,        \* position of the loop over warehouse_tables.items()
    log,        \* source reads, statements and console lines since the
                \* start of the run (or of the direct call)
    err,        \* the exception that ended the run or the call, or "none"
    handed,     \* the datasets handed to load_data in this run
    runs,       \* pipeline runs started
    edits,      \* changes of the source store
    calls,      \* direct calls made
    last,       \* the direct call that has just returned: its arguments and
                \* the warehouse before it
    settled     \* the warehouse at the end of the latest completed run, while
                \* the source is as that run saw it; otherwise "none"

vars == <<oltp, dwh, created, dm_sales, sale_seq, pc, idx, log, err, handed,
          runs, edits, calls, last, settled>>

\* the columns of the warehouse rows that the model tracks
TrackedColumns ==
    [dim_user |-> {"user_id", "user_first_name"},
     dim_payment |-> {"payment_id"}, dim_shipper |-> {"shipper_id"},
     dim_rating |-> {"rating_id"}, dim_voucher |-> {"voucher_id", "user_id"},
     fact_orders |-> {"order_id", "user_id", "payment_id", "shipper_id",
                      "voucher_id", "rating_id"},
     dim_product_category |-> {"product_category_id"},
     dim_product |-> {"product_id", "product_category_id"},
     fact_order_items |-> {"order_item_id", "order_id", "product_id"}]

(***************************************************************************)
(* etl.py: extract and transform.  A function of the program is an         *)
(* operator giving [value, events]: what it returns (or the exception it   *)
(* raises) and the reads and console lines it issues, in order.            *)
(***************************************************************************)
Result(v, ev) == [value |-> v, events |-> ev]

\* mutant: the read is issued before the name is checked
extract_data_read_first(table_name) ==
    IF table_name \notin DOMAIN oltp_tables
    THEN Result(Raise("ValueError"), << <<"read", table_name>> >>)
    ELSE Result(oltp[oltp_tables[table_name]],
                << <<"read", oltp_tables[table_name]>>,
                   <<"print", "Extract Data", oltp_tables[table_name]>> >>)

extract_data(table_name) ==
    IF table_name \notin DOMAIN oltp_tables
    THEN Result(Raise("ValueError"), <<>>)
    ELSE Result(oltp[oltp_tables[table_name]],
                << <<"read", oltp_tables[table_name]>>,
                   <<"print", "Extract Data", oltp_tables[table_name]>> >>)

transform_data(df, target_table) ==
    LET out == IF target_table \in DOMAIN dimension_columns
               THEN Project(df, dimension_columns[target_table])
               ELSE df
    IN Result(out, IF IsError(out) THEN <<>>
                   ELSE << <<"print", "Transform Data", target_table>> >>)

\* {table: extract_data(table) for table in oltp_tables.keys()}
ExtractAllEvents ==
    LET RECURSIVE ev(_)
        ev(i) == IF i > Len(oltp_keys) THEN <<>>
                 ELSE extract_data(oltp_keys[i]).events \o ev(i + 1)
    IN ev(1)

transform_fact_orders ==
    LET df(t) == extract_data(t).value
        m1 == Merge(df("orders"), df("users"), "user_id", "inner")
        m2 == Merge(m1, df("payments"), "payment_id", "inner")
        m3 == Merge(m2, df("shippers"), "shipper_id", "inner")
        m4 == Merge(m3, df("ratings"), "rating_id", "inner")
        m5 == Merge(m4, df("vouchers"), "voucher_id", "left")
        m6 == IF IsError(m5) THEN m5 ELSE Rename(m5, "user_id_x", "user_id")
    IN Result(IF IsError(m6) THEN m6
              ELSE Project(m6, dimension_columns["fact_orders"]),
              ExtractAllEvents)

transform_fact_order_items ==
    LET df(t) == extract_data(t).value
        m1 == Merge(df("order_items"), df("orders"), "order_id", "inner")
        m2 == Merge(m1, df("products"), "product_id", "inner")
    IN Result(IF IsError(m2) THEN m2
              ELSE Project(m2, dimension_columns["fact_order_items"]),
              ExtractAllEvents)

(***************************************************************************)
(* etl.py: load                                                            *)
(***************************************************************************)
\* [key |-> the key column], or the ValueError of the final else
get_unique_key(table_name) ==
    CASE table_name = "dim_user" -> [key |-> "user_id"]
      [] table_name = "dim_payment" -> [key |-> "payment_id"]
      [] table_name = "dim_shipper" -> [key |-> "shipper_id"]
      [] table_name = "dim_rating" -> [key |-> "rating_id"]
      [] table_name = "dim_voucher" -> [key |-> "voucher_id"]
      [] table_name = "fact_orders" -> [key |-> "order_id"]
      [] table_name = "dim_product" -> [key |-> "product_id"]
      [] table_name = "dim_product_category" -> [key |-> "product_category_id"]
      [] table_name = "fact_order_items" -> [key |-> "order_item_id"]
      [] OTHER -> Raise("ValueError")

\* mutant: the mask matches nothing, every candidate row is kept
deduplicate_data_unfiltered(new_data, existing_keys, unique_key) == new_data

\* mutant: the negation of the mask is lost
deduplicate_data_inverted(new_data, existing_keys, unique_key) ==
    Frame(new_data.columns,
          SelectSeq(new_data.rows,
                    LAMBDA r : Contains(existing_keys, r[unique_key])))

\* new_data[~new_data[unique_key].isin(existing_keys)]
deduplicate_data(new_data, existing_keys, unique_key) ==
    Frame(new_data.columns,
          SelectSeq(new_data.rows,
                    LAMBDA r : ~Contains(existing_keys, r[unique_key])))

\* the row as the table stores it: a column the INSERT does not name is NULL
StoredRow(table, row) ==
    [c \in TrackedColumns[table] |-> IF c \in DOMAIN row THEN row[c] ELSE NULL]

\* mutant: the tables are declared without PRIMARY KEY
PrimaryKeyOK_undeclared(table, rows) == TRUE

\* PRIMARY KEY: no two rows of the table agree on the key column
PrimaryKeyOK(table, rows) ==
    \A i, j \in 1..Len(rows) :
        i # j => rows[i][ddl_primary_key[table]] # rows[j][ddl_primary_key[table]]

\* NOT NULL: every column not declared nullable is named and not NULL
NotNullOK(table, df, rows) ==
    /\ \A c \in Range(ddl_columns[table]) \ ddl_nullable[table] :
           Contains(df.columns, c)
    /\ \A i \in 1..Len(rows) :
           \A c \in TrackedColumns[table] \ ddl_nullable[table] :
               rows[i][c] # NULL

\* FOREIGN KEY: a referencing column is NULL or names a row of the other table
ForeignKeysOK(table, rows) ==
    \A i \in 1..Len(rows) : \A fk \in ddl_foreign_keys[table] :
        \/ rows[i][fk[1]] = NULL
        \/ \E k \in 1..Len(dwh[fk[2]]) : dwh[fk[2]][k][fk[3]] = rows[i][fk[1]]

\* df.to_sql(table, if_exists='append', method='multi'): one multi-row INSERT
\* in one transaction; nothing is sent for an empty frame.  Gives the rows of
\* the table afterwards, or the error that rolled the INSERT back.
InsertRows(table, df) ==
    LET new == [i \in 1..Len(df.rows) |-> StoredRow(table, df.rows[i])]
    IN IF df.rows = <<>> THEN [rows |-> dwh[table]]
       ELSE IF \E i \in 1..Len(df.columns) :
                  ~Contains(ddl_columns[table], df.columns[i])
       THEN Raise("ProgrammingError")
       ELSE IF ~NotNullOK(table, df, new)
               \/ ~PrimaryKeyOK(table, dwh[table] \o new)
               \/ ~ForeignKeysOK(table, new)
       THEN Raise("IntegrityError")
       ELSE [rows |-> dwh[table] \o new]

\* load_data: value is [rows |-> the table afterwards], or the exception
load_data(df, table_name) ==
    LET got == get_unique_key(table_name)
    IN IF IsError(got) THEN Result(got, <<>>)
       ELSE IF table_name \notin created
       THEN Result(Raise("ProgrammingError"), << <<"select", table_name>> >>)
       ELSE IF ~Contains(df.columns, got.key)
       THEN Result(Raise("KeyError"), << <<"select", table_name>> >>)
       ELSE LET unique_key == got.key
                existing_keys == ColumnValues(dwh[table_name], unique_key)
                unique_rows == deduplicate_data(df, existing_keys, unique_key)
                after == InsertRows(table_name, unique_rows)
            IN Result(after,
                      << <<"select", table_name>>, <<"insert", table_name>> >>
                      \o IF IsError(after) THEN <<>>
                         ELSE << <<"print", "Load Data", table_name>> >>)

(***************************************************************************)
(* config.py ddl_marts['insert_dm_sales']: the SELECT of the mart.  The    *)
(* join on dim_voucher is an INNER JOIN: fo.voucher_id = dv.voucher_id is  *)
(* never true of a NULL voucher_id.                                        *)
(***************************************************************************)
MartQuery ==
    LET T(t) == Range(dwh[t])
    IN {[order_id |-> fo.order_id, user_id |-> fo.user_id,
         user_name |-> du.user_first_name,
         order_item_id |-> foi.order_item_id,
         product_id |-> dp2.product_id,
         product_category_id |-> dpc.product_category_id] :
          <<fo, du, dp, ds, dv, foi, dp2, dpc>> \in
            {q \in T("fact_orders") \X T("dim_user") \X T("dim_payment")
                   \X T("dim_shipper") \X T("dim_voucher")
                   \X T("fact_order_items") \X T("dim_product")
                   \X T("dim_product_category") :
               /\ q[1].user_id = q[2].user_id
               /\ q[1].payment_id = q[3].payment_id
               /\ q[1].shipper_id = q[4].shipper_id
               /\ q[1].voucher_id # NULL
               /\ q[1].voucher_id = q[5].voucher_id
               /\ q[1].order_id = q[6].order_id
               /\ q[6].product_id = q[7].product_id
               /\ q[7].product_category_id = q[8].product_category_id}}

\* a mart row without its sale_id
MartColumns(r) == [c \in (DOMAIN r) \ {"sale_id"} |-> r[c]]

(***************************************************************************)
(* etl.py etl_process, one action per stage                                *)
(***************************************************************************)
Unsettled == [ok |-> FALSE, tables |-> [t \in WarehouseNames |-> <<>>]]

\* create_tables(), then the loop begins
StartRun ==
    /\ pc \in {"idle", "done", "failed"}
    /\ runs < MaxRuns
    /\ runs' = runs + 1
    /\ created' = created \cup WarehouseNames
    /\ log' = << <<"create_tables">> >>
    /\ err' = "none"
    /\ handed' = <<>>
    /\ idx' = 1
    /\ pc' = "loop"
    /\ UNCHANGED <<oltp, dwh, dm_sales, sale_seq, edits, calls, last, settled>>

\* the transform that the body of the loop selects for one item
SelectTransform(dim_table) ==
    IF dim_table = "fact_orders"
    THEN [via |-> "transform_fact_orders", out |-> transform_fact_orders]
    ELSE IF dim_table = "fact_order_items"
    THEN [via |-> "transform_fact_order_items",
          out |-> transform_fact_order_items]
    ELSE LET e == extract_data(dim_table)
             t == IF IsError(e.value) THEN e
                  ELSE transform_data(e.value, dim_table)
         IN [via |-> "transform_data",
             out |-> Result(t.value,
                            IF IsError(e.value) THEN e.events
                            ELSE e.events \o t.events)]

\* one iteration of the loop over warehouse_tables.items()
ProcessTable ==
    /\ pc = "loop"
    /\ LET dim_table == warehouse_items[idx]
           target_table == warehouse_tables[dim_table]
           sel == SelectTransform(dim_table)
           df == sel.out.value
           ld == IF IsError(df) THEN Result(df, <<>>)
                 ELSE load_data(df, target_table)
       IN /\ log' = log \o sel.out.events \o ld.events
          /\ handed' = IF IsError(df) THEN handed
                       ELSE Append(handed, [table |-> target_table,
                                            columns |-> df.columns,
                                            via |-> sel.via])
          /\ IF IsError(ld.value)
             THEN /\ pc' = "failed"
                  /\ err' = ld.value.error
                  /\ UNCHANGED <<dwh, idx>>
             ELSE /\ dwh' = [dwh EXCEPT ![target_table] = ld.value.rows]
                  /\ err' = err
                  /\ IF idx = Len(warehouse_items)
                     THEN pc' = "mart" /\ idx' = idx
                     ELSE pc' = "loop" /\ idx' = idx + 1
    /\ UNCHANGED <<oltp, created, dm_sales, sale_seq, runs, edits, calls,
                   last, settled>>

\* mutant: the TRUNCATE is lost
create_and_insert_dm_sales_no_truncate(order) ==
    [rows |-> dm_sales \cup
              {[c \in (DOMAIN order[i]) \cup {"sale_id"} |->
                  IF c = "sale_id" THEN sale_seq + i ELSE order[i][c]] :
               i \in 1..Len(order)},
     seq |-> sale_seq + Len(order)]

\* create_and_insert_dm_sales(): CREATE TABLE IF NOT EXISTS, TRUNCATE, then
\* INSERT ... SELECT; sale_id comes from the table's sequence, which TRUNCATE
\* does not restart, in the order the SELECT happens to deliver the rows
create_and_insert_dm_sales(order) ==
    [rows |-> {[c \in (DOMAIN order[i]) \cup {"sale_id"} |->
                  IF c = "sale_id" THEN sale_seq + i ELSE order[i][c]] :
               i \in 1..Len(order)},
     seq |-> sale_seq + Len(order)]

BuildMart ==
    /\ pc = "mart"
    /\ \E order \in {o \in [1..Cardinality(MartQuery) -> MartQuery] :
                       Range(o) = MartQuery} :
         LET m == create_and_insert_dm_sales(order)
         IN dm_sales' = m.rows /\ sale_seq' = m.seq
    /\ created' = created \cup {"dm_sales"}
    /\ log' = log \o << <<"create", "dm_sales">>, <<"truncate", "dm_sales">>,
                        <<"insert", "dm_sales">>, <<"print", "Data Mart">> >>
    /\ pc' = "done"
    /\ settled' = [ok |-> TRUE, tables |-> dwh]
    /\ UNCHANGED <<oltp, dwh, idx, err, handed, runs, edits, calls, last>>

(***************************************************************************)
(* The source store.  Its schema is not part of the repository: a source   *)
(* table has the columns of its warehouse table, in that order, or those   *)
(* and one more ("updated_at").                                            *)
(***************************************************************************)
SourceNames == {oltp_tables[n] : n \in DOMAIN oltp_tables}

LogicalOf(phys) == CHOOSE n \in DOMAIN oltp_tables : oltp_tables[n] = phys

DeclaredColumns(phys) == dimension_columns[warehouse_tables[LogicalOf(phys)]]

\* the rows a source table may hold
SourceRows(phys) ==
    CASE phys = "tb_users" ->
           {[user_id |-> i, user_first_name |-> 1] : i \in Ids}
      [] phys = "tb_payments" -> {[payment_id |-> i] : i \in Ids}
      [] phys = "tb_shippers" -> {[shipper_id |-> i] : i \in Ids}
      [] phys = "tb_ratings" -> {[rating_id |-> i] : i \in Ids}
      [] phys = "tb_vouchers" ->
           {[voucher_id |-> i, user_id |-> u] : i \in Ids, u \in Ids}
      [] phys = "tb_orders" ->
           [order_id : 1..MaxOrders, user_id : Ids,
            payment_id : Ids \cup {DanglingId}, shipper_id : Ids,
            voucher_id : Ids \cup {NULL}, rating_id : Ids]
      [] phys = "tb_product_category" ->
           {[product_category_id |-> i] : i \in Ids}
      [] phys = "tb_products" ->
           {[product_id |-> i, product_category_id |-> c] :
              i \in Ids, c \in Ids}
      [] phys = "tb_order_items" ->
           [order_item_id : Ids, order_id : 1..MaxOrders, product_id : Ids]

DimensionSources ==
    {"tb_users", "tb_payments", "tb_shippers", "tb_ratings", "tb_vouchers",
     "tb_product_category", "tb_products"}

\* every dimension row whose key is its own id and whose references are 1
FullRows(phys) ==
    IF phys = "tb_vouchers" THEN {r \in SourceRows(phys) : r.user_id = 1}
    ELSE IF phys = "tb_products"
    THEN {r \in SourceRows(phys) : r.product_category_id = 1}
    ELSE SourceRows(phys)

\* the initial contents of the source: all dimension rows but at most
\* MaxMissing, at most MaxOrders orders, any set of order items
InitialOrders == {S \in SUBSET SourceRows("tb_orders") :
                    Cardinality(S) <= MaxOrders}

InitialItems == SUBSET SourceRows("tb_order_items")

InitialMissing ==
    {M \in SUBSET UNION {{<<t, r>> : r \in FullRows(t)} :
                           t \in DimensionSources} :
       Cardinality(M) <= MaxMissing}

SourceOf(missing, orders, items, extra) ==
    [t \in SourceNames |->
       Frame(DeclaredColumns(t)
             \o (IF t \in extra THEN <<"updated_at">> ELSE <<>>),
             SetToSeq(CASE t = "tb_orders" -> orders
                        [] t = "tb_order_items" -> items
                        [] OTHER -> {r \in FullRows(t) :
                                       <<t, r>> \notin missing}))]

\* the spec's end-to-end scenario: one row everywhere, no voucher, the order's
\* voucher reference NULL
Scenario ==
    SourceOf({<<"tb_vouchers", [voucher_id |-> 1, user_id |-> 1]>>},
             {[order_id |-> 1, user_id |-> 1, payment_id |-> 1,
               shipper_id |-> 1, voucher_id |-> NULL, rating_id |-> 1]},
             {[order_item_id |-> 1, order_id |-> 1, product_id |-> 1]}, {})

\* the same with the voucher, and the order using it
ScenarioWithVoucher ==
    SourceOf({},
             {[order_id |-> 1, user_id |-> 1, payment_id |-> 1,
               shipper_id |-> 1, voucher_id |-> 1, rating_id |-> 1]},
             {[order_item_id |-> 1, order_id |-> 1, product_id |-> 1]}, {})

InitRest ==
    /\ dwh = [t \in WarehouseNames |-> <<>>]
    /\ created = {}
    /\ dm_sales = {}
    /\ sale_seq = 0
    /\ pc = "idle"
    /\ idx = 1
    /\ log = <<>>
    /\ err = "none"
    /\ handed = <<>>
    /\ runs = 0
    /\ edits = 0
    /\ calls = 0
    /\ last = [op |-> "none"]
    /\ settled = Unsettled

\* the source varies in its rows
InitData ==
    /\ \E missing \in InitialMissing, orders \in InitialOrders,
          items \in InitialItems :
         oltp = SourceOf(missing, orders, items, {})
    /\ InitRest

\* the source varies in its columns
InitColumns ==
    /\ \E extra \in {X \in SUBSET SourceNames : Cardinality(X) <= MaxExtra} :
         oltp = [t \in SourceNames |->
                   Frame(DeclaredColumns(t)
                         \o (IF t \in extra THEN <<"updated_at">> ELSE <<>>),
                         ScenarioWithVoucher[t].rows)]
    /\ InitRest

Init == InitData \/ InitColumns

\* the source store changes between two runs: a row is deleted or inserted
SourceChange ==
    /\ pc \in {"done", "failed"}
    /\ edits < MaxEdits
    /\ edits' = edits + 1
    /\ \E t \in SourceNames :
         \/ \E i \in 1..Len(oltp[t].rows) :
              oltp' = [oltp EXCEPT ![t].rows =
                         SelectSeq(oltp[t].rows, LAMBDA r : r # oltp[t].rows[i])]
         \/ \E r \in SourceRows(t) :
              /\ ~Contains(oltp[t].rows, r)
              /\ Len(oltp[t].rows) < MaxOrders
              /\ oltp' = [oltp EXCEPT ![t].rows = Append(oltp[t].rows, r)]
    /\ settled' = Unsettled
    /\ UNCHANGED <<dwh, created, dm_sales, sale_seq, pc, idx, log, err,
                   handed, runs, calls, last>>

Next == StartRun \/ ProcessTable \/ BuildMart \/ SourceChange

Spec == Init /\ [][Next]_vars

(***************************************************************************)
(* The functions of etl.py called on their own                             *)
(***************************************************************************)
\* names to extract: the keys of oltp_tables and three that are none
ExtractNames ==
    (DOMAIN oltp_tables) \cup {"customers", "tb_users", "dim_user"}

\* tables to load: a dimension, and the mart, which has no unique key
LoadNames == {"dim_user", "dm_sales"}

\* candidate rows: a key and one other column, of two values
CandidateRows == [user_id : 1..MaxKey, user_first_name : {1, 2}]

SeqsUpTo(S, n) == UNION {[1..k -> S] : k \in 0..n}

\* candidate datasets: the declared columns, or one more, or the key missing
Candidates ==
    LET declared == dimension_columns["dim_user"]
    IN {Frame(declared, rows) : rows \in SeqsUpTo(CandidateRows, MaxRows)}
       \cup {Frame(declared \o <<"updated_at">>, <<r>>) : r \in CandidateRows}
       \cup {Frame(Tail(declared),
                   <<[c \in (DOMAIN r) \ {declared[1]} |-> r[c]]>>) :
               r \in CandidateRows}

\* before or after a create_tables()
InitCalls ==
    /\ oltp = ScenarioWithVoucher
    /\ dwh = [t \in WarehouseNames |-> <<>>]
    /\ created \in {{}, WarehouseNames}
    /\ dm_sales = {}
    /\ sale_seq = 0
    /\ pc = "idle"
    /\ idx = 1
    /\ log = <<>>
    /\ err = "none"
    /\ handed = <<>>
    /\ runs = 0
    /\ edits = 0
    /\ calls = 0
    /\ last = [op |-> "none"]
    /\ settled = Unsettled

\* a caller calls extract_data and looks at the outcome
CallExtract ==
    /\ pc = "idle"
    /\ calls < MaxCalls
    /\ calls' = calls + 1
    /\ pc' = "returned"
    /\ \E table_name \in ExtractNames :
         LET e == extract_data(table_name)
         IN /\ log' = e.events
            /\ err' = IF IsError(e.value) THEN e.value.error ELSE "none"
            /\ last' = [op |-> "extract_data", table_name |-> table_name]
    /\ UNCHANGED <<oltp, dwh, created, dm_sales, sale_seq, idx, handed,
                   runs, edits, settled>>

\* a caller calls load_data and looks at the outcome
CallLoad ==
    /\ pc = "idle"
    /\ calls < MaxCalls
    /\ calls' = calls + 1
    /\ pc' = "returned"
    /\ \E table_name \in LoadNames :
       \E df \in IF table_name \in WarehouseNames THEN Candidates
                 ELSE {Frame(dimension_columns["dim_user"], <<>>)} :
         LET l == load_data(df, table_name)
         IN /\ log' = l.events
            /\ err' = IF IsError(l.value) THEN l.value.error ELSE "none"
            /\ dwh' = IF IsError(l.value) THEN dwh
                      ELSE [dwh EXCEPT ![table_name] = l.value.rows]
            /\ last' = [op |-> "load_data", table_name |-> table_name,
                        df |-> df, before |-> dwh]
    /\ UNCHANGED <<oltp, created, dm_sales, sale_seq, idx, handed, runs,
                   edits, settled>>

\* the caller goes on to its next call
Return ==
    /\ pc = "returned"
    /\ pc' = "idle"
    /\ last' = [op |-> "none"]
    /\ log' = <<>>
    /\ err' = "none"
    /\ UNCHANGED <<oltp, dwh, created, dm_sales, sale_seq, idx, handed, runs,
                   edits, calls, settled>>

NextCalls == CallExtract \/ CallLoad \/ Return

SpecCalls == InitCalls /\ [][NextCalls]_vars

(***************************************************************************)
(* Properties                                                              *)
(***************************************************************************)
Keys(rows, col) == {rows[i][col] : i \in 1..Len(rows)}

FactTables == {"fact_orders", "fact_order_items"}

\* C1: every dataset handed to load_data in a run has exactly the column
\* list that dimension_columns declares for its destination table, in order.
C1_HandedColumnsAreDeclared ==
    \A i \in 1..Len(handed) :
        handed[i].columns = dimension_columns[handed[i].table]

\* C9: the loop runs transform_fact_orders for fact_orders,
\* transform_fact_order_items for fact_order_items and the projection for
\* every other table, so a completed run ran each fact transform once.
C9_TransformSelectedByDestination ==
    /\ \A i \in 1..Len(handed) :
         handed[i].via =
           (CASE handed[i].table = "fact_orders" -> "transform_fact_orders"
              [] handed[i].table = "fact_order_items" ->
                   "transform_fact_order_items"
              [] OTHER -> "transform_data")
    /\ pc = "done" =>
         \A v \in {"transform_fact_orders", "transform_fact_order_items"} :
             Cardinality({i \in 1..Len(handed) : handed[i].via = v}) = 1

\* C8 as claimed: in a run no fact table is loaded before a dimension table.
C8_FactsAfterAllDimensions ==
    \A i, j \in 1..Len(handed) :
        (i < j /\ handed[i].table \in FactTables)
            => handed[j].table \in FactTables

LoadOrder ==
    <<"dim_user", "dim_payment", "dim_shipper", "dim_rating", "dim_voucher",
      "fact_orders", "dim_product_category", "dim_product",
      "fact_order_items">>

MartStatements ==
    << <<"create", "dm_sales">>, <<"truncate", "dm_sales">>,
       <<"insert", "dm_sales">>, <<"print", "Data Mart">> >>

\* C8 as amended: a run creates the schema first, loads the tables in the
\* order dim_user, dim_payment, dim_shipper, dim_rating, dim_voucher,
\* fact_orders, dim_product_category, dim_product, fact_order_items (each
\* table after the tables its foreign keys reference), and builds the mart
\* last, after all nine loads.
C8_FixedStageOrder ==
    /\ pc # "idle" => log[1] = <<"create_tables">>
    /\ Len(handed) <= Len(LoadOrder)
    /\ \A i \in 1..Len(handed) : handed[i].table = LoadOrder[i]
    /\ \A i \in 1..Len(handed) : \A fk \in ddl_foreign_keys[handed[i].table] :
           \E j \in 1..(i - 1) : handed[j].table = fk[2]
    /\ (\E k \in 1..Len(log) : log[k] \in Range(MartStatements))
           => /\ pc = "done"
              /\ Len(handed) = Len(LoadOrder)
              /\ SubSeq(log, Len(log) - 3, Len(log)) = MartStatements
    /\ pc \in {"mart", "done"} => Len(handed) = Len(LoadOrder)

\* a completed run loaded fact_orders before dim_product_category
C8_Witness ==
    /\ pc = "done"
    /\ Len(handed) = 9
    /\ handed[6].table = "fact_orders"
    /\ handed[7].table = "dim_product_category"

\* C3: from empty destination tables, one run over the end-to-end scenario
\* (one row per table, no voucher, the order's voucher reference NULL) ends
\* with one fact_orders row with a NULL voucher_id, one fact_order_items row
\* and exactly one dm_sales row.
C3_EndToEndScenario ==
    (oltp = Scenario /\ runs = 1 /\ edits = 0 /\ pc = "done")
        => /\ Len(dwh["fact_orders"]) = 1
           /\ dwh["fact_orders"][1].voucher_id = NULL
           /\ Len(dwh["fact_order_items"]) = 1
           /\ Cardinality(dm_sales) = 1

\* an order whose user, payment, shipper or rating is not in the source
InnerUnmatched(o) ==
    \/ o.user_id \notin Keys(oltp["tb_users"].rows, "user_id")
    \/ o.payment_id \notin Keys(oltp["tb_payments"].rows, "payment_id")
    \/ o.shipper_id \notin Keys(oltp["tb_shippers"].rows, "shipper_id")
    \/ o.rating_id \notin Keys(oltp["tb_ratings"].rows, "rating_id")

\* C2: when a run from empty destination tables has ended, over a source
\* whose orders have distinct ids and name no voucher that is missing, an
\* order unmatched in an inner-joined source table is absent from
\* fact_orders and a matched order with a NULL voucher reference is present.
C2_InnerJoinDropsLeftJoinKeeps ==
    LET orders == oltp["tb_orders"].rows
        loaded == Keys(dwh["fact_orders"], "order_id")
    IN (/\ pc \in {"done", "failed"}
        /\ runs = 1
        /\ edits = 0
        /\ \A i, j \in 1..Len(orders) :
               i # j => orders[i].order_id # orders[j].order_id
        /\ \A i \in 1..Len(orders) :
               orders[i].voucher_id \in
                   {NULL} \cup Keys(oltp["tb_vouchers"].rows, "voucher_id"))
       => \A i \in 1..Len(orders) :
            /\ InnerUnmatched(orders[i]) => orders[i].order_id \notin loaded
            /\ (~InnerUnmatched(orders[i]) /\ orders[i].voucher_id = NULL)
                 => orders[i].order_id \in loaded

\* C4: after a completed run, as long as the source is unchanged, a further
\* run leaves every dimension and fact table as that run left it (same rows,
\* same row count, same keys), and does not abort.
C4_RerunLeavesTablesUnchanged ==
    settled.ok => (dwh = settled.tables /\ pc # "failed")

\* a second run over the same source has completed, after a first that had
C4_Witness ==
    /\ settled.ok
    /\ runs = 2
    /\ edits = 0
    /\ pc = "done"
    /\ Len(dwh["fact_orders"]) = 2
    /\ dwh["fact_order_items"] # <<>>

\* C6: when a run has completed, the first or a later one, dm_sales holds
\* exactly the rows of the mart query over the warehouse tables as they are,
\* each once, all of them inserted by this run.
C6_MartIsQueryResult ==
    pc = "done" =>
        /\ {MartColumns(r) : r \in dm_sales} = MartQuery
        /\ Cardinality(dm_sales) = Cardinality(MartQuery)
        /\ {r.sale_id : r \in dm_sales}
             = (sale_seq - Cardinality(MartQuery) + 1)..sale_seq

\* the second of two runs over the same source has rebuilt a mart with rows
C6_Witness ==
    /\ pc = "done"
    /\ runs = 2
    /\ edits = 0
    /\ settled.ok
    /\ dm_sales # {}
    /\ \A r \in dm_sales : r.sale_id > Cardinality(dm_sales)

\* the candidate rows whose key is not in the table, as the table stores them
AntiJoin(table, df, before) ==
    LET k == ddl_primary_key[table]
        keep == SelectSeq(df.rows, LAMBDA r : r[k] \notin Keys(before, k))
    IN [i \in 1..Len(keep) |-> StoredRow(table, keep[i])]

\* a direct call of load_data on a warehouse table, the key among the
\* candidate's columns
LoadCalled ==
    /\ last.op = "load_data"
    /\ last.table_name \in WarehouseNames
    /\ Contains(last.df.columns, ddl_primary_key[last.table_name])

\* C5 as claimed: whatever the candidate and the destination, load_data
\* appends exactly the candidate rows whose key the destination lacks.
C5_LoadAppendsAntiJoin ==
    LoadCalled =>
        dwh[last.table_name]
          = last.before[last.table_name]
            \o AntiJoin(last.table_name, last.df, last.before[last.table_name])

\* C5 as amended: a load_data that returns has appended exactly the
\* candidate rows whose key the destination lacked; a load_data that raises
\* has appended nothing; either way the rows of before are still there,
\* unchanged, and no other table has changed.
C5_LoadAppendsAntiJoinOrNothing ==
    LoadCalled =>
        LET t == last.table_name
        IN /\ err = "none" =>
                dwh[t] = last.before[t] \o AntiJoin(t, last.df, last.before[t])
           /\ err # "none" => dwh[t] = last.before[t]
           /\ SubSeq(dwh[t], 1, Len(last.before[t])) = last.before[t]
           /\ \A u \in WarehouseNames \ {t} : dwh[u] = last.before[u]

\* a candidate row is skipped although it differs from the stored row, and
\* another is appended
C5_Witness ==
    /\ LoadCalled
    /\ err = "none"
    /\ Len(dwh[last.table_name]) > Len(last.before[last.table_name])
    /\ \E i \in 1..Len(last.df.rows) :
         \E j \in 1..Len(last.before[last.table_name]) :
           LET k == ddl_primary_key[last.table_name]
               old == last.before[last.table_name][j]
           IN /\ last.df.rows[i][k] = old[k]
              /\ StoredRow(last.table_name, last.df.rows[i]) # old
              /\ dwh[last.table_name][j] = old

\* C7: extract_data of a name that is no key of oltp_tables raises
\* ValueError, with no read of the source and no console line.
C7_UnknownTableRaisesWithoutRead ==
    (last.op = "extract_data" /\ last.table_name \notin DOMAIN oltp_tables)
        => (err = "ValueError" /\ log = <<>>)

\* extract_data("tb_users"): a physical name is no key of oltp_tables
C7_Witness ==
    /\ last.op = "extract_data"
    /\ last.table_name = "tb_users"
    /\ err = "ValueError"

\* C10: from empty tables, after any sequence of load_data calls, no
\* warehouse table holds two rows with the same value of its unique key.
C10_UniqueKeys ==
    \A t \in WarehouseNames :
        \A i, j \in 1..Len(dwh[t]) :
            i # j => dwh[t][i][get_unique_key(t).key]
                       # dwh[t][j][get_unique_key(t).key]

\* a candidate with two rows of one key that the table lacked was offered
C10_Witness ==
    /\ LoadCalled
    /\ \E i, j \in 1..Len(last.df.rows) :
         LET k == get_unique_key(last.table_name).key
         IN /\ i # j
            /\ last.df.rows[i][k] = last.df.rows[j][k]
            /\ last.df.rows[i][k]
                 \notin Keys(last.before[last.table_name], k)
    /\ dwh[last.table_name] # <<>>
=============================================================================
